---- MODULE Spec2Model ----
(***************************************************************************)
(* autoconda: one invocation of the command line program.                  *)
(*                                                                         *)
(*   cli.py          cmd_run, cmd_activate                                 *)
(*   environment.py  find_environment_file, parse_environment_file,        *)
(*                   get_environment_name, get_conda_environment_name      *)
(*   conda.py        check_conda_available, get_conda_environments,        *)
(*                   environment_exists, activate_environment,             *)
(*                   run_in_environment                                    *)
(*                                                                         *)
(* The file system (which config files exist), the arguments, the content  *)
(* of the file that is opened and the behaviour of every conda subprocess  *)
(* are the environment: the first two are drawn in Init, the others when   *)
(* the program reads the file or starts the subprocess.                    *)
(***************************************************************************)
EXTENDS Integers, Sequences, FiniteSets, TLC

\* ---------------------------------------------------------------- bounds
\* Deepest start directory (number of path components below the root).
MaxDepth == 2
\* Longest command vector given to `autoconda run`.
MaxArgs == 2

\* Python's None (as a path, a name, an exception slot).
None == "None"

\* Names of the directories on the way from the root to the deepest start.
DirNames == <<"home", "user", "project", "pkg", "sub">>

\* Words a command vector is made of: a program name, an argument holding
\* spaces and shell metacharacters, an argument that looks like a flag.
Words == {"echo", "a b; $c", "-n"}

\* Exit statuses of a child process that exited (sys.exit takes 0..255 as is).
ExitCodes == {0, 1, 2, 127}

\* Environment names a config file may carry.
EnvNames == {"envA", "envB"}

\* ------------------------------------------------------------------ paths
\* pathlib.Path: an absolute, resolved path is the sequence of its components;
\* the root is the empty sequence and is its own parent.
Root == << >>

Dir(n) == [i \in 1..n |-> DirNames[i]]

parent(p) == IF p = Root THEN Root ELSE SubSeq(p, 1, Len(p) - 1)

\* p / name
joinpath(p, name) == Append(p, name)

\* The start directory and its ancestors, up to and including the root.
Ancestors(p) == {SubSeq(p, 1, n) : n \in 0..Len(p)}

ConfigNames == {"environment.yml", "environment.yaml"}

ConfigPaths(start) == {joinpath(d, f) : d \in Ancestors(start), f \in ConfigNames}

\* --------------------------------------------------------- file contents
\* What yaml.safe_load makes of a file: it raises (kind "malformed"), or returns
\* a scalar, a sequence, None (an empty document) or a mapping.  A mapping is
\* the set of its <<key, value>> pairs.  "undecodable" is a file whose bytes
\* open()/read() cannot decode: the read raises UnicodeDecodeError.
Doc(kind, map) == [kind |-> kind, map |-> map]

Mappings ==
    {{<<"dependencies", "python=3.9, numpy">>},
     {<<"name", None>>},
     {<<"channels", "conda-forge">>, <<"dependencies", "python=3.9">>}}
    \cup {{<<"name", n>>} : n \in EnvNames}
    \cup {{<<"name", n>>, <<"dependencies", "numpy">>} : n \in EnvNames}

Contents ==
    {Doc(k, {}) : k \in {"undecodable", "malformed", "scalar", "sequence", "null"}}
    \cup {Doc("mapping", m) : m \in Mappings}

HasKey(map, key) == \E kv \in map : kv[1] = key

\* dict.get(key): the value, or None when the key is absent.
DictGet(map, key) ==
    IF HasKey(map, key) THEN (CHOOSE kv \in map : kv[1] = key)[2] ELSE None

\* Path | None: the "no path" value, which is no path of the model.
NoPath == <<None>>

\* An exception in flight; NoExc when there is none.
Exc(type, msg) == [type |-> type, msg |-> msg]

NoExc == Exc(None, "")

\* ------------------------------------------------------------------ state
VARIABLES
    files,          \* the config files that exist (paths)
    args,           \* argparse namespace: func, path (resolved), command
    pc,             \* where the invocation is
    current_path,   \* find_environment_file: the directory being examined
    env_file,       \* find_environment_file's return value
    opened,         \* the files opened for reading, in order
    content,        \* what the opened file held (NoContent before any read)
    env_name,       \* get_conda_environment_name's return value
    called,         \* the functions of the program entered so far
    spawned,        \* every subprocess.run so far: argv and how it went
    stdout,         \* lines printed to standard output
    stderr,         \* lines printed to standard error
    raised,         \* the exception that reached the command's except clauses
    exit_status     \* the process's exit status once pc = "exited"

vars == <<files, args, pc, current_path, env_file, opened, content, env_name,
          called, spawned, stdout, stderr, raised, exit_status>>

NoContent == Doc("unread", {})

\* Command vectors: argparse.REMAINDER gives a list of 0..MaxArgs words.
RECURSIVE SeqsUpTo(_, _)
SeqsUpTo(S, n) ==
    IF n = 0 THEN {<< >>}
    ELSE LET shorter == SeqsUpTo(S, n - 1)
         IN  shorter \cup {Append(q, w) : q \in {r \in shorter : Len(r) = n - 1}, w \in S}

Commands == SeqsUpTo(Words, MaxArgs)

StartPaths == {Dir(n) : n \in 0..MaxDepth}

Init ==
    /\ \E start \in StartPaths :
         /\ files \in SUBSET ConfigPaths(start)
         /\ \/ \E c \in Commands :
                 args = [func |-> "cmd_run", path |-> start, command |-> c]
            \/ args = [func |-> "cmd_activate", path |-> start, command |-> << >>]
    /\ pc = "main"
    /\ current_path = NoPath
    /\ env_file = NoPath
    /\ opened = << >>
    /\ content = NoContent
    /\ env_name = None
    /\ called = {}
    /\ spawned = << >>
    /\ stdout = << >>
    /\ stderr = << >>
    /\ raised = NoExc
    /\ exit_status = 0

\* --------------------------------------------------------- environment.py
\* Path.exists()
exists(p) == p \in files

\* Mutant: the probe looks for the other extension.
env_file_at_yaml(dir) == joinpath(dir, "environment.yaml")

\* The one file name find_environment_file probes in a directory.
env_file_at(dir) == joinpath(dir, "environment.yml")

\* parse_environment_file(env_file_path), the file holding `doc`:
\* what it raises (NoExc if nothing) and what it returns.
parse_environment_file(env_file_path, doc) ==
    IF ~exists(env_file_path)
        THEN [raises |-> Exc("FileNotFoundError", "Environment file not found"), value |-> {}]
    ELSE IF doc.kind = "undecodable"
        THEN [raises |-> Exc("UnicodeDecodeError", "codec can't decode"), value |-> {}]
    ELSE IF doc.kind = "malformed"
        THEN [raises |-> Exc("YAMLError", "while parsing"), value |-> {}]
    ELSE [raises |-> NoExc,
          value |-> IF doc.kind = "mapping" THEN doc.map ELSE {}]

get_environment_name(env_data) == DictGet(env_data, "name")

\* Mutant: the except clause misses yaml.YAMLError.
CaughtWithoutYAMLError == {"FileNotFoundError"}

\* The exception types get_conda_environment_name's except clause catches.
CaughtByResolver == {"YAMLError", "FileNotFoundError"}

\* get_conda_environment_name after find_environment_file returned a file:
\* try parse + get name; the except clause turns the caught types into None.
resolve_from_file(env_file_path, doc) ==
    LET parsed == parse_environment_file(env_file_path, doc)
    IN  IF parsed.raises = NoExc
            THEN [raises |-> NoExc, value |-> get_environment_name(parsed.value)]
        ELSE IF parsed.raises.type \in CaughtByResolver
            THEN [raises |-> NoExc, value |-> None]
        ELSE [raises |-> parsed.raises, value |-> None]

\* ----------------------------------------------------------------- cli.py
\* Mutant: `if command is None`, which an argparse.REMAINDER list never is.
no_command_is_none(command) == FALSE

\* `if not command`
no_command(command) == Len(command) = 0

\* Mutant: `if env_name == ""`, which lets None through.
no_environment_is_empty(name) == name = ""

\* `if env_name is None`
no_environment(name) == name = None

\* Mutant: every nonzero status becomes 1, as if the SystemExit were caught
\* and rewritten by the command's except clauses.
sys_exit_rewritten(code) == IF code = 0 THEN 0 ELSE 1

\* sys.exit(code): the status the process ends with.
sys_exit(code) == code

NoEnvMessage ==
    <<"Error: No environment.yml file found or no environment name specified in the file.">>

\* The except clauses of cmd_run and cmd_activate: the line printed to stderr.
\* SystemExit is no Exception and passes through both.
handler_message(e) ==
    IF e.type = "CondaError" THEN <<"Error: ", e.msg>>
    ELSE <<"Unexpected error: ", e.type>>

\* Mutant: the `except Exception` clause prints and falls through without
\* sys.exit(1), so the interpreter ends with status 0.
handler_status_falls_through(e) == IF e.type = "CondaError" THEN 1 ELSE 0

\* The status cmd_run's and cmd_activate's except clauses exit with.
handler_status(e) == 1

Exit(status) ==
    /\ pc' = "exited"
    /\ exit_status' = status

\* An exception reaching the try block of cmd_run / cmd_activate.
Handle(e) ==
    /\ raised' = e
    /\ stderr' = Append(stderr, handler_message(e))
    /\ Exit(sys_exit(handler_status(e)))

\* cmd_run up to its call of get_conda_environment_name.
cmd_run ==
    /\ pc = "main"
    /\ args.func = "cmd_run"
    /\ IF no_command(args.command)
          THEN /\ stderr' = Append(stderr, <<"Error: No command specified.">>)
               /\ Exit(sys_exit(2))
               /\ UNCHANGED <<called, current_path>>
          ELSE /\ called' = called \cup {"get_conda_environment_name"}
               /\ current_path' = args.path
               /\ pc' = "find_environment_file"
               /\ UNCHANGED <<stderr, exit_status>>
    /\ UNCHANGED <<files, args, env_file, opened, content, env_name, spawned, stdout,
                   raised>>

\* cmd_activate up to its call of get_conda_environment_name.
cmd_activate ==
    /\ pc = "main"
    /\ args.func = "cmd_activate"
    /\ called' = called \cup {"get_conda_environment_name"}
    /\ current_path' = args.path
    /\ pc' = "find_environment_file"
    /\ UNCHANGED <<files, args, env_file, opened, content, env_name, spawned,
                   stdout, stderr, raised, exit_status>>

\* find_environment_file: one iteration of `while current_path != current_path.parent`.
find_loop ==
    /\ pc = "find_environment_file"
    /\ current_path # parent(current_path)
    /\ IF exists(env_file_at(current_path))
          THEN /\ env_file' = env_file_at(current_path)
               /\ pc' = "get_conda_environment_name"
               /\ UNCHANGED current_path
          ELSE /\ current_path' = parent(current_path)
               /\ UNCHANGED <<env_file, pc>>
    /\ UNCHANGED <<files, args, opened, content, env_name, called, spawned,
                   stdout, stderr, raised, exit_status>>

\* Mutant: the root's candidate is returned without the exists() test.
find_root_unchecked ==
    /\ pc = "find_environment_file"
    /\ current_path = parent(current_path)
    /\ env_file' = env_file_at(current_path)
    /\ pc' = "get_conda_environment_name"
    /\ UNCHANGED <<files, args, current_path, opened, content, env_name, called,
                   spawned, stdout, stderr, raised, exit_status>>

\* find_environment_file after the loop: the root directory is checked.
find_root ==
    /\ pc = "find_environment_file"
    /\ current_path = parent(current_path)
    /\ env_file' = IF exists(env_file_at(current_path))
                      THEN env_file_at(current_path) ELSE NoPath
    /\ pc' = "get_conda_environment_name"
    /\ UNCHANGED <<files, args, current_path, opened, content, env_name, called,
                   spawned, stdout, stderr, raised, exit_status>>

\* get_conda_environment_name once find_environment_file has returned.
get_conda_environment_name ==
    /\ pc = "get_conda_environment_name"
    /\ IF env_file = NoPath
          THEN /\ env_name' = None
               /\ pc' = "resolved"
               /\ UNCHANGED <<opened, content, stderr, raised, exit_status>>
          ELSE \E doc \in Contents :
                 LET r == resolve_from_file(env_file, doc)
                 IN  /\ opened' = Append(opened, env_file)
                     /\ content' = doc
                     /\ IF r.raises = NoExc
                           THEN /\ env_name' = r.value
                                /\ pc' = "resolved"
                                /\ UNCHANGED <<stderr, raised, exit_status>>
                           ELSE /\ Handle(r.raises)
                                /\ UNCHANGED env_name
    /\ UNCHANGED <<files, args, current_path, env_file, called, spawned, stdout>>

\* The function of conda.py the command hands the name to.
Callee == IF args.func = "cmd_run" THEN "run_in_environment" ELSE "activate_environment"

\* cmd_run / cmd_activate once the name is back: no name is an error, else
\* the command announces itself and calls into conda.py.
cmd_resolved ==
    /\ pc = "resolved"
    /\ IF no_environment(env_name)
          THEN /\ stderr' = Append(stderr, NoEnvMessage)
               /\ Exit(sys_exit(1))
               /\ UNCHANGED <<called, stdout>>
          ELSE /\ stdout' = Append(stdout,
                     IF args.func = "cmd_run"
                        THEN <<"Running command in conda environment", env_name, args.command>>
                        ELSE <<"Activating conda environment", env_name>>)
               /\ called' = called \cup {Callee}
               /\ pc' = "check_conda_available"
               /\ UNCHANGED <<stderr, exit_status>>
    /\ UNCHANGED <<files, args, current_path, env_file, opened, content, env_name,
                   spawned, raised>>

\* --------------------------------------------------------------- conda.py
\* How one subprocess.run(argv) goes: the child is started and exits with
\* `returncode` (error = None), or subprocess.run raises `error`.
Ran(returncode) == [error |-> None, returncode |-> returncode]

Failed(error) == [error |-> error, returncode |-> 0]

\* FileNotFoundError: no such binary on the search path.  PermissionError: the
\* binary is there and cannot be executed.  Both are OSError, not SubprocessError.
SpawnErrors == {"FileNotFoundError", "PermissionError"}

\* With a timeout= argument subprocess.run may also raise TimeoutExpired.
TimedOutcomes ==
    {Ran(c) : c \in {0, 1}} \cup {Failed(e) : e \in SpawnErrors \cup {"TimeoutExpired"}}

\* Without one, the child runs to its end.
UntimedOutcomes == {Ran(c) : c \in ExitCodes} \cup {Failed(e) : e \in SpawnErrors}

\* What `conda env list --json` prints when it exits 0.
Listings ==
    {"lists the environment", "lists other environments", "not JSON", "JSON, no object"}

Shells == {"bash", "zsh"}

Spawn(argv, outcome) ==
    spawned' = Append(spawned, [argv |-> argv, error |-> outcome.error,
                                returncode |-> outcome.returncode])

\* Mutant: `return True` once the probe has run, whatever its return code.
check_conda_available_ignores_returncode(outcome) ==
    IF outcome.error = None
        THEN [raises |-> NoExc, value |-> TRUE]
    ELSE IF outcome.error \in {"TimeoutExpired", "FileNotFoundError"}
        THEN [raises |-> NoExc, value |-> FALSE]
    ELSE [raises |-> Exc(outcome.error, "conda"), value |-> FALSE]

\* check_conda_available(), its `conda --version` going as `outcome`:
\* what it raises and what it returns.
check_conda_available(outcome) ==
    IF outcome.error = None
        THEN [raises |-> NoExc, value |-> outcome.returncode = 0]
    ELSE IF outcome.error \in {"TimeoutExpired", "FileNotFoundError"}
        THEN [raises |-> NoExc, value |-> FALSE]
    ELSE [raises |-> Exc(outcome.error, "conda"), value |-> FALSE]

NotAvailable == Exc("CondaError", "Conda is not available in the system")

DoesNotExist == Exc("CondaError", "Environment does not exist")

\* The first statement of run_in_environment and of activate_environment.
conda_available ==
    /\ pc = "check_conda_available"
    /\ \E outcome \in TimedOutcomes :
         LET r == check_conda_available(outcome)
         IN  /\ Spawn(<<"conda", "--version">>, outcome)
             /\ IF r.raises # NoExc THEN Handle(r.raises)
                ELSE IF ~r.value THEN Handle(NotAvailable)
                ELSE /\ pc' = "environment_exists"
                     /\ UNCHANGED <<stderr, raised, exit_status>>
    /\ UNCHANGED <<files, args, current_path, env_file, opened, content, env_name,
                   called, stdout>>

\* environment_exists -> get_conda_environments: its own check_conda_available.
\* A CondaError of get_conda_environments makes environment_exists return False,
\* and the caller raises "does not exist".
environment_exists_probe ==
    /\ pc = "environment_exists"
    /\ \E outcome \in TimedOutcomes :
         LET r == check_conda_available(outcome)
         IN  /\ Spawn(<<"conda", "--version">>, outcome)
             /\ IF r.raises # NoExc THEN Handle(r.raises)
                ELSE IF ~r.value THEN Handle(DoesNotExist)
                ELSE /\ pc' = "get_conda_environments"
                     /\ UNCHANGED <<stderr, raised, exit_status>>
    /\ UNCHANGED <<files, args, current_path, env_file, opened, content, env_name,
                   called, stdout>>

\* The try block of get_conda_environments, `conda env list --json` going as
\* `outcome` and printing `listing`.  `import json` is a statement of the try
\* block, so `json` is a local name, unbound until the import has run: an
\* exception raised before it (the spawn failing, the timeout, the CondaError
\* for a nonzero return code) makes the except clause's own expression
\* `json.JSONDecodeError` raise UnboundLocalError, which nothing in conda.py
\* catches.  After the import, a JSONDecodeError becomes a CondaError, and
\* env_data.get on JSON that is no object raises AttributeError.
\* Returns what get_conda_environments raises and whether env_name is listed.
get_conda_environments(outcome, listing) ==
    IF outcome.error # None \/ outcome.returncode # 0
        THEN [raises |-> Exc("UnboundLocalError", "json"), value |-> FALSE]
    ELSE IF listing = "not JSON"
        THEN [raises |-> Exc("CondaError", "Failed to parse conda environments"),
              value |-> FALSE]
    ELSE IF listing = "JSON, no object"
        THEN [raises |-> Exc("AttributeError", "get"), value |-> FALSE]
    ELSE [raises |-> NoExc, value |-> listing = "lists the environment"]

\* environment_exists(env_name): CondaError means False, anything else passes.
environment_exists(outcome, listing) ==
    LET r == get_conda_environments(outcome, listing)
    IN  IF r.raises.type = "CondaError" THEN [raises |-> NoExc, value |-> FALSE]
        ELSE r

environment_exists_list ==
    /\ pc = "get_conda_environments"
    /\ \E outcome \in TimedOutcomes, listing \in Listings :
         LET r == environment_exists(outcome, listing)
         IN  /\ Spawn(<<"conda", "env", "list", "--json">>, outcome)
             /\ IF r.raises # NoExc THEN Handle(r.raises)
                ELSE IF ~r.value THEN Handle(DoesNotExist)
                ELSE /\ pc' = "subprocess_run"
                     /\ UNCHANGED <<stderr, raised, exit_status>>
    /\ UNCHANGED <<files, args, current_path, env_file, opened, content, env_name,
                   called, stdout>>

\* The argument vector run_in_environment builds.
run_command(name, command) == <<"conda", "run", "-n", name>> \o command

\* The argument vector activate_environment builds.
activate_command(name, shell_name) ==
    <<"conda", "run", "--name", name, "--no-capture-output", shell_name>>

\* subprocess.run(conda_command) raising `error`: only a SubprocessError is
\* wrapped in a CondaError; an OSError passes through unchanged.
run_failure(error) ==
    IF error = "SubprocessError"
        THEN Exc("CondaError", "Failed to run command in environment")
    ELSE Exc(error, "conda")

\* run_in_environment's subprocess.run and cmd_run's sys.exit(exit_code).
run_in_environment ==
    /\ pc = "subprocess_run"
    /\ args.func = "cmd_run"
    /\ \E outcome \in UntimedOutcomes :
         /\ Spawn(run_command(env_name, args.command), outcome)
         /\ IF outcome.error # None THEN Handle(run_failure(outcome.error))
            ELSE /\ Exit(sys_exit(outcome.returncode))
                 /\ UNCHANGED <<stderr, raised>>
    /\ UNCHANGED <<files, args, current_path, env_file, opened, content, env_name,
                   called, stdout>>

\* activate_environment's subprocess.run; cmd_activate and main then return,
\* and the interpreter exits with status 0.
activate_environment ==
    /\ pc = "subprocess_run"
    /\ args.func = "cmd_activate"
    /\ \E outcome \in UntimedOutcomes, shell_name \in Shells :
         /\ Spawn(activate_command(env_name, shell_name), outcome)
         /\ IF outcome.error # None THEN Handle(run_failure(outcome.error))
            ELSE /\ Exit(0)
                 /\ UNCHANGED <<stderr, raised>>
    /\ UNCHANGED <<files, args, current_path, env_file, opened, content, env_name,
                   called, stdout>>

Next ==
    \/ cmd_run
    \/ cmd_activate
    \/ find_loop
    \/ find_root
    \/ get_conda_environment_name
    \/ cmd_resolved
    \/ conda_available
    \/ environment_exists_probe
    \/ environment_exists_list
    \/ run_in_environment
    \/ activate_environment

Spec == Init /\ [][Next]_vars

\* The program is sequential: whenever a step is possible it is taken.
FairSpec == Spec /\ WF_vars(Next)

\* ------------------------------------------------------------- properties
yml(dir) == joinpath(dir, "environment.yml")

yaml(dir) == joinpath(dir, "environment.yaml")

\* The directories, from the start upward, that hold a config file.
ConfigDirs == {d \in Ancestors(args.path) : yml(d) \in files \/ yaml(d) \in files}

\* The one of them closest to the start.
Nearest == CHOOSE d \in ConfigDirs : \A e \in ConfigDirs : Len(e) <= Len(d)

\* The config file of a directory: environment.yml, else environment.yaml.
ConfigFileOf(d) == IF yml(d) \in files THEN yml(d) ELSE yaml(d)

\* find_environment_file has been called and has returned.
FindReturned ==
    /\ "get_conda_environment_name" \in called
    /\ pc \notin {"main", "find_environment_file"}

\* get_conda_environment_name raised instead of returning: the command's
\* except clause ended the program before anything was spawned.
ResolverRaised == pc = "exited" /\ raised # NoExc /\ spawned = << >>

\* get_conda_environment_name has been called and has returned a value.
ResolverReturned ==
    /\ FindReturned
    /\ pc # "get_conda_environment_name"
    /\ ~ResolverRaised

\* The subprocess.run calls that ran or were to run the user's command.
IsRunSpawn(s) == Len(s.argv) >= 2 /\ s.argv[1] = "conda" /\ s.argv[2] = "run"

\* C1: once find_environment_file has returned, and some directory among the
\* start and its ancestors holds a config file, the value returned is the
\* config file (environment.yml, else environment.yaml) of the closest one.
C1_NearestWins ==
    (FindReturned /\ ConfigDirs # {}) => env_file = ConfigFileOf(Nearest)

\* C2: a directory of the walk that holds environment.yaml and no
\* environment.yml is a match: when it is the first directory from the start
\* upward to hold a config file, find_environment_file returns its
\* environment.yaml, and that is the file get_conda_environment_name reads.
C2_YamlFallback ==
    (FindReturned /\ ConfigDirs # {} /\ yml(Nearest) \notin files)
        => /\ env_file = yaml(Nearest)
           /\ opened \in {<< >>, <<yaml(Nearest)>>}

\* C3: when the start directory holds both environment.yml and
\* environment.yaml, find_environment_file returns the environment.yml, and
\* get_conda_environment_name opens that file alone and returns the name it holds.
C3_YmlPreferred ==
    (FindReturned /\ yml(args.path) \in files /\ yaml(args.path) \in files)
        => /\ env_file = yml(args.path)
           /\ ResolverReturned =>
                /\ opened = <<yml(args.path)>>
                /\ env_name = DictGet(IF content.kind = "mapping" THEN content.map ELSE {},
                                      "name")

C3_Witness ==
    /\ pc = "resolved"
    /\ yml(args.path) \in files
    /\ yaml(args.path) \in files
    /\ Len(args.path) >= 1
    /\ env_name \in EnvNames

\* C4: when neither the start directory nor any ancestor up to the root holds
\* a config file, the walk that has started ends, at the root, with
\* find_environment_file returning None and get_conda_environment_name
\* returning None without opening any file.
C4_NoConfigTerminates ==
    (pc = "find_environment_file" /\ ConfigDirs = {})
        ~> (/\ pc = "resolved"
            /\ current_path = Root
            /\ env_file = NoPath
            /\ env_name = None
            /\ opened = << >>)

C4_Witness ==
    /\ pc = "resolved"
    /\ ConfigDirs = {}
    /\ Len(args.path) >= 2
    /\ current_path = Root
    /\ env_file = NoPath
    /\ env_name = None

\* The contents C5 calls bad: malformed YAML, a top-level document that is no
\* mapping, a mapping without the key name.
BadContent ==
    \/ content.kind \in {"malformed", "scalar", "sequence", "null"}
    \/ content.kind = "mapping" /\ ~HasKey(content.map, "name")

C6_NoNameNoSubprocess ==
    env_name = None
        => /\ spawned = << >>
           /\ called \subseteq {"get_conda_environment_name"}
           /\ pc \in {"main", "find_environment_file", "get_conda_environment_name",
                      "resolved", "exited"}
           /\ (pc = "exited" /\ FindReturned) => (exit_status = 1 /\ Len(stderr) = 1)

C6_Witness ==
    /\ pc = "exited"
    /\ ResolverReturned
    /\ env_name = None
    /\ content.kind = "mapping"
    /\ exit_status = 1
    /\ spawned = << >>

\* C7: the run command given an empty command vector calls nothing, opens no
\* file and starts no subprocess, and its only step ends it with status 2.
C7_EmptyCommandRejected ==
    (args.func = "cmd_run" /\ Len(args.command) = 0)
        => /\ called = {}
           /\ opened = << >>
           /\ spawned = << >>
           /\ pc \in {"main", "exited"}
           /\ pc = "exited" => (exit_status = 2 /\ Len(stderr) = 1)

C7_Witness ==
    /\ args.func = "cmd_run"
    /\ Len(args.command) = 0
    /\ yml(args.path) \in files
    /\ pc = "exited"
    /\ exit_status = 2

\* C8: the subprocess run_in_environment starts for the user's command has
\* the argument vector conda run --name <env_name> --no-capture-output
\* followed by the command vector.
C8_RunArgv ==
    \A i \in DOMAIN spawned :
        (args.func = "cmd_run" /\ IsRunSpawn(spawned[i]))
            => spawned[i].argv
                   = <<"conda", "run", "--name", env_name, "--no-capture-output">>
                         \o args.command

\* C9: when the run command's child was started and exited with status c,
\* the program's exit status is c.
C9_ExitCodeForwarded ==
    \A i \in DOMAIN spawned :
        (args.func = "cmd_run" /\ IsRunSpawn(spawned[i]) /\ spawned[i].error = None)
            => pc = "exited" /\ exit_status = spawned[i].returncode

C9_Witness ==
    /\ args.func = "cmd_run"
    /\ pc = "exited"
    /\ spawned # << >>
    /\ IsRunSpawn(spawned[Len(spawned)])
    /\ spawned[Len(spawned)].error = None
    /\ spawned[Len(spawned)].returncode = 127
    /\ exit_status = 127

\* C10: when a subprocess.run of the run command fails to start conda (not
\* found, not executable), at a probe or at the run itself, the program has
\* ended with status 1 and a line on stderr, and no child ran the command.
C10_SpawnFailureReported ==
    \A i \in DOMAIN spawned :
        (args.func = "cmd_run" /\ spawned[i].error \in SpawnErrors)
            => /\ pc = "exited"
               /\ exit_status = 1
               /\ stderr # << >>
               /\ raised # NoExc
               /\ \A j \in DOMAIN spawned :
                      ~(IsRunSpawn(spawned[j]) /\ spawned[j].error = None)

C10_Witness ==
    /\ args.func = "cmd_run"
    /\ pc = "exited"
    /\ spawned # << >>
    /\ IsRunSpawn(spawned[Len(spawned)])
    /\ spawned[Len(spawned)].error = "FileNotFoundError"
    /\ exit_status = 1

\* The subprocess invocations that precede the user's command in
\* run_in_environment: check_conda_available, then environment_exists with
\* its own check_conda_available and `conda env list --json`.
ProbeArgvs ==
    <<(<<"conda", "--version">>), (<<"conda", "--version">>),
      (<<"conda", "env", "list", "--json">>)>>

\* C11 as stated: a run command that reached run_in_environment and has ended
\* made exactly one subprocess invocation in all, the one for the user's command.
C11_ExactlyOneSubprocess ==
    (args.func = "cmd_run" /\ "run_in_environment" \in called /\ pc = "exited")
        => Len(spawned) = 1 /\ IsRunSpawn(spawned[1])

\* C11 as amended: the run command starts the user's command at most once,
\* as the last of exactly four subprocess invocations, after the three probes
\* (conda --version twice, conda env list --json) each ran to its end with
\* return code 0; the invocation has returned and the program has ended, so
\* nothing is started after it.
C11_OneRunAfterProbes ==
    \A i \in DOMAIN spawned :
        (args.func = "cmd_run" /\ IsRunSpawn(spawned[i]))
            => /\ i = Len(spawned)
               /\ Len(spawned) = Len(ProbeArgvs) + 1
               /\ \A j \in DOMAIN ProbeArgvs :
                      /\ spawned[j].argv = ProbeArgvs[j]
                      /\ spawned[j].error = None
                      /\ spawned[j].returncode = 0
               /\ pc = "exited"

C11_Witness ==
    /\ args.func = "cmd_run"
    /\ "run_in_environment" \in called
    /\ pc = "exited"
    /\ Len(spawned) = Len(ProbeArgvs) + 1
    /\ IsRunSpawn(spawned[Len(spawned)])
    /\ spawned[Len(spawned)].error = None
    /\ Len(args.command) >= 2

====
